---- MODULE Spec2Model ----
(***************************************************************************)
(* Model of lib/pkcs11_attrdesc.c (pkcs11-tools): the attribute name to    *)
(* CK_ATTRIBUTE_TYPE resolver get_attribute_type_from_name(), a bsearch()  *)
(* over the static table _a[] with the comparator compare_CKA_desc(),      *)
(* which is strcasecmp() on the desc fields.                               *)
(*                                                                         *)
(* Strings are sequences of character codes (ASCII); the terminating NUL   *)
(* is the character read past the end of the sequence.  Table indices are  *)
(* 1-based in the model (C index + 1); NULL is 0.                          *)
(***************************************************************************)
EXTENDS Integers, Sequences, FiniteSets

(* ---------------------------------------------------------------- bounds *)

\* Longest name a caller passes.
MaxLen == 2

\* Largest number of entries of the table _a[].
MaxEntries == 3

\* The callers' threads.
Threads == {1, 2}

\* Characters of the model: ' ', 'A', '_', 'a'.
Alphabet == {32, 65, 95, 97}

\* Every string a caller can pass, the empty string included.
Names == UNION {[1..k -> Alphabet] : k \in 0..MaxLen}

(* ------------------------------------------------------------- constants *)

\* A CK_ATTRIBUTE_TYPE value of 32 bits is the pair of its 16-bit halves,
\* <<high, low>>: 0x80000000 is <<32768, 0>>.
\* 0xFFFFFFFF, the initial value of retval and of candidate.type.
SENTINEL == <<65535, 65535>>

\* The null pointer bsearch() returns when nothing matches.
NULL == 0

(* --------------------------------------------------- the table's dataset *)

\* The entries of _attrinfo.h, the generated fragment included into _a[]:
\* { type, "desc" } pairs in ascending case-insensitive order of desc, no two
\* desc equal under it, no desc empty, every type below 0xFFFFFFFF.  Scaled
\* down to five entries over the model's characters: "__", "_A", "A", "a_",
\* "Aa"; "A" and "a_" are two names of one code, and the codes
\* run from 0 to 0xFFFFFFFE.
AttrInfo ==
    << [type |-> <<0, 0>>,         desc |-> <<95, 95>>],
       [type |-> <<32768, 0>>,     desc |-> <<95, 65>>],
       [type |-> <<0, 308>>,       desc |-> <<65>>],
       [type |-> <<0, 308>>,       desc |-> <<97, 95>>],
       [type |-> <<65535, 65534>>, desc |-> <<65, 97>>] >>

\* The entries of AttrInfo at the indices S, in the order of AttrInfo.
SubTable(S) ==
    [i \in 1..Cardinality(S) |->
        AttrInfo[CHOOSE k \in S : Cardinality({j \in S : j < k}) = i - 1]]

\* The tables _a[] can be built as: the dataset, or any part of it of at least
\* one and at most MaxEntries entries, in the dataset's order.
AttrInfoTables ==
    {SubTable(S) : S \in {X \in SUBSET (1..Len(AttrInfo)) :
                             Cardinality(X) \in 1..MaxEntries}}

\* The dataset cut after any of its first MaxEntries entries.
AttrInfoPrefixes ==
    {SubSeq(AttrInfo, 1, k) : k \in (1..MaxEntries) \cap (1..Len(AttrInfo))}

\* An entry whose desc differs from AttrInfo[5]'s in case only.
DuplicateEntry == [type |-> <<0, 7>>, desc |-> <<97, 65>>]

\* Tables in any order, with or without entries that compare equal: what a
\* corrupted dataset could give.
AnyOrderTables ==
    UNION {[1..k -> {AttrInfo[i] : i \in 1..Len(AttrInfo)} \cup {DuplicateEntry}] :
              k \in 1..MaxEntries}

(* ----------------------------------------------------------- the C library *)

\* The character of s at position i (1-based), NUL past its end.
CharAt(s, i) == IF i <= Len(s) THEN s[i] ELSE 0

\* A comparison without case folding, as strcmp() makes it.
tolower_none(c) == c

\* Folding to upper case, which orders '_' after the letters.
toupper(c) == IF c \in 97..122 THEN c - 32 ELSE c

\* tolower() in the C/POSIX locale.
tolower(c) == IF c \in 65..90 THEN c + 32 ELSE c

\* strcasecmp(): the difference of the first pair of lowered characters that
\* differ, 0 when both strings end together.
RECURSIVE strcasecmp_from(_, _, _)
strcasecmp_from(s1, s2, i) ==
    LET c1 == tolower(CharAt(s1, i))
        c2 == tolower(CharAt(s2, i))
    IN  IF c1 # c2 THEN c1 - c2
        ELSE IF c1 = 0 THEN 0
        ELSE strcasecmp_from(s1, s2, i + 1)

strcasecmp(s1, s2) == strcasecmp_from(s1, s2, 1)

(* -------------------------------------------------------------- the source *)

\* strncasecmp() over the length of the key: a prefix match.
compare_CKA_desc_prefix(a, b) ==
    strcasecmp(a.desc,
               SubSeq(b.desc, 1, IF Len(a.desc) < Len(b.desc)
                                 THEN Len(a.desc) ELSE Len(b.desc)))

compare_CKA_desc(a, b) == strcasecmp(a.desc, b.desc)

\* The element bsearch() probes in the range [lo, hi) (0-based).
bsearch_idx(lo, hi) == (lo + hi) \div 2

\* A binary search that takes its upper bound as inclusive when it goes left.
bsearch_probe_inclusive(key, base, lo, hi) ==
    LET idx == bsearch_idx(lo, hi)
        comparison == compare_CKA_desc(key, base[idx + 1])
    IN  [l |-> IF comparison > 0 THEN idx + 1 ELSE lo,
         u |-> IF comparison < 0 THEN idx - 1 ELSE hi,
         match |-> IF comparison = 0 THEN idx + 1 ELSE NULL]

\* lfind(): a linear scan, one element after the other.
lfind_probe(key, base, lo, hi) ==
    LET comparison == compare_CKA_desc(key, base[lo + 1])
    IN  [l |-> IF comparison # 0 THEN lo + 1 ELSE lo,
         u |-> hi,
         match |-> IF comparison = 0 THEN lo + 1 ELSE NULL]

\* A search that answers with the last element probed when nothing is equal.
bsearch_probe_nearest(key, base, lo, hi) ==
    LET idx == bsearch_idx(lo, hi)
        comparison == compare_CKA_desc(key, base[idx + 1])
        nl == IF comparison > 0 THEN idx + 1 ELSE lo
        nu == IF comparison < 0 THEN idx ELSE hi
    IN  [l |-> nl, u |-> nu,
         match |-> IF comparison = 0 \/ nl >= nu THEN idx + 1 ELSE NULL]

\* One iteration of bsearch()'s loop over base for key in the range [lo, hi):
\* the new range, and the matching element (NULL when this probe is no match).
bsearch_probe(key, base, lo, hi) ==
    LET idx == bsearch_idx(lo, hi)
        comparison == compare_CKA_desc(key, base[idx + 1])
    IN  [l |-> IF comparison > 0 THEN idx + 1 ELSE lo,
         u |-> IF comparison < 0 THEN idx ELSE hi,
         match |-> IF comparison = 0 THEN idx + 1 ELSE NULL]

\* The match is never read: retval keeps its initial value.
match_type_unset(base, m, retval0) == retval0

\* if(match) { retval = match->type; }
match_type(base, m, retval0) == IF m # NULL THEN base[m].type ELSE retval0

(* ------------------------------------------------------------------ state *)

VARIABLES
    _a,         \* the table
    pc,         \* per thread: "idle", "bsearch" (inside the call), "done"
    name,       \* per thread: the caller's string
    candidate,  \* per thread: the key built on the stack
    l, u,       \* per thread: bsearch()'s range, 0-based, [l, u)
    match,      \* per thread: bsearch()'s result, an index of _a or NULL
    retval,     \* per thread: the value returned
    ncmp        \* per thread: calls of compare_CKA_desc in this call

vars == <<_a, pc, name, candidate, l, u, match, retval, ncmp>>

\* A thread outside the function holds none of its locals.
Idle ==
    /\ pc = [t \in Threads |-> "idle"]
    /\ name = [t \in Threads |-> <<>>]
    /\ candidate = [t \in Threads |-> [type |-> SENTINEL, desc |-> <<>>]]
    /\ l = [t \in Threads |-> 0]
    /\ u = [t \in Threads |-> 0]
    /\ match = [t \in Threads |-> NULL]
    /\ retval = [t \in Threads |-> SENTINEL]
    /\ ncmp = [t \in Threads |-> 0]

Init == _a \in AttrInfoTables /\ Idle

InitMT == _a \in AttrInfoPrefixes /\ Idle

InitAny == _a \in AnyOrderTables /\ Idle

\* retval starts at 0 instead of 0xFFFFFFFF.
CallZero(t, n) ==
    /\ pc[t] = "idle"
    /\ name' = [name EXCEPT ![t] = n]
    /\ retval' = [retval EXCEPT ![t] = <<0, 0>>]
    /\ candidate' = [candidate EXCEPT ![t] = [type |-> SENTINEL, desc |-> n]]
    /\ l' = [l EXCEPT ![t] = 0]
    /\ u' = [u EXCEPT ![t] = Len(_a)]
    /\ match' = [match EXCEPT ![t] = NULL]
    /\ ncmp' = [ncmp EXCEPT ![t] = 0]
    /\ pc' = [pc EXCEPT ![t] = IF Len(_a) > 0 THEN "bsearch" ELSE "done"]
    /\ UNCHANGED _a

\* candidate is a static object: one key shared by every caller.
CallStatic(t, n) ==
    /\ pc[t] = "idle"
    /\ name' = [name EXCEPT ![t] = n]
    /\ retval' = [retval EXCEPT ![t] = SENTINEL]
    /\ candidate' = [s \in Threads |-> [type |-> SENTINEL, desc |-> n]]
    /\ l' = [l EXCEPT ![t] = 0]
    /\ u' = [u EXCEPT ![t] = Len(_a)]
    /\ match' = [match EXCEPT ![t] = NULL]
    /\ ncmp' = [ncmp EXCEPT ![t] = 0]
    /\ pc' = [pc EXCEPT ![t] = IF Len(_a) > 0 THEN "bsearch" ELSE "done"]
    /\ UNCHANGED _a

\* Thread t enters get_attribute_type_from_name(n): retval, array_size and
\* candidate are set and bsearch() starts on the whole table.
Call(t, n) ==
    /\ pc[t] = "idle"
    /\ name' = [name EXCEPT ![t] = n]
    /\ retval' = [retval EXCEPT ![t] = SENTINEL]
    /\ candidate' = [candidate EXCEPT ![t] = [type |-> SENTINEL, desc |-> n]]
    /\ l' = [l EXCEPT ![t] = 0]
    /\ u' = [u EXCEPT ![t] = Len(_a)]
    /\ match' = [match EXCEPT ![t] = NULL]
    /\ ncmp' = [ncmp EXCEPT ![t] = 0]
    /\ pc' = [pc EXCEPT ![t] = IF Len(_a) > 0 THEN "bsearch" ELSE "done"]
    /\ UNCHANGED _a

\* lsearch() in the place of bsearch(): a key that is not found is added at the
\* end of the table.
LsearchStep(t) ==
    /\ pc[t] = "bsearch"
    /\ LET r == bsearch_probe(candidate[t], _a, l[t], u[t])
           over == r.match # NULL \/ r.l >= r.u
           added == over /\ r.match = NULL
       IN  /\ l' = [l EXCEPT ![t] = r.l]
           /\ u' = [u EXCEPT ![t] = r.u]
           /\ match' = [match EXCEPT ![t] = IF added THEN Len(_a) + 1 ELSE r.match]
           /\ ncmp' = [ncmp EXCEPT ![t] = @ + 1]
           /\ _a' = IF added THEN Append(_a, candidate[t]) ELSE _a
           /\ retval' = [retval EXCEPT ![t] =
                            IF over THEN match_type(_a', match'[t], @) ELSE @]
           /\ pc' = [pc EXCEPT ![t] = IF over THEN "done" ELSE "bsearch"]
    /\ UNCHANGED <<name, candidate>>

\* One iteration of bsearch()'s loop in thread t.  When it ends the search (a
\* match, or an empty range left) the function's last lines run too: retval is
\* taken from the match, if any.
BsearchStep(t) ==
    /\ pc[t] = "bsearch"
    /\ LET r == bsearch_probe(candidate[t], _a, l[t], u[t])
           over == r.match # NULL \/ r.l >= r.u
       IN  /\ l' = [l EXCEPT ![t] = r.l]
           /\ u' = [u EXCEPT ![t] = r.u]
           /\ match' = [match EXCEPT ![t] = r.match]
           /\ ncmp' = [ncmp EXCEPT ![t] = @ + 1]
           /\ retval' = [retval EXCEPT ![t] =
                            IF over THEN match_type(_a, r.match, @) ELSE @]
           /\ pc' = [pc EXCEPT ![t] = IF over THEN "done" ELSE "bsearch"]
    /\ UNCHANGED <<_a, name, candidate>>

\* Thread t returns retval to its caller and leaves the function.
Return(t) ==
    /\ pc[t] = "done"
    /\ pc' = [pc EXCEPT ![t] = "idle"]
    /\ name' = [name EXCEPT ![t] = <<>>]
    /\ candidate' = [candidate EXCEPT ![t] = [type |-> SENTINEL, desc |-> <<>>]]
    /\ l' = [l EXCEPT ![t] = 0]
    /\ u' = [u EXCEPT ![t] = 0]
    /\ match' = [match EXCEPT ![t] = NULL]
    /\ retval' = [retval EXCEPT ![t] = SENTINEL]
    /\ ncmp' = [ncmp EXCEPT ![t] = 0]
    /\ UNCHANGED _a

\* One caller.
NextOne ==
    \/ \E n \in Names : Call(1, n)
    \/ BsearchStep(1)
    \/ Return(1)

\* Callers in every thread, their steps interleaved.
Next ==
    \E t \in Threads :
        \/ \E n \in Names : Call(t, n)
        \/ BsearchStep(t)
        \/ Return(t)

\* One caller, the table any part of the dataset.
Spec == Init /\ [][NextOne]_vars

\* Concurrent callers.
SpecMT == InitMT /\ [][Next]_vars

\* One caller, the table in any order.
SpecAny == InitAny /\ [][NextOne]_vars

(* ------------------------------------------------------------- properties *)

\* Two characters that are the same letter in either case, or the same
\* character.
SameLetter(c, d) ==
    \/ c = d
    \/ c \in 65..90 /\ d = c + 32
    \/ d \in 65..90 /\ c = d + 32

\* Two strings that differ at most in the case of their letters.
DifferOnlyInCase(s, t) ==
    /\ Len(s) = Len(t)
    /\ \A i \in 1..Len(s) : SameLetter(s[i], t[i])

\* The table is strictly ascending under the comparator of the search.
StrictlyAscending(tbl) ==
    \A i \in 1..(Len(tbl) - 1) : compare_CKA_desc(tbl[i], tbl[i + 1]) < 0

\* The entries of the table whose name is s up to case.
Matching(s) == {i \in 1..Len(_a) : DifferOnlyInCase(s, _a[i].desc)}

\* The integer part of the binary logarithm of n >= 1.
RECURSIVE Log2Floor(_)
Log2Floor(n) == IF n <= 1 THEN 0 ELSE 1 + Log2Floor(n \div 2)

\* C1: on a strictly ascending table, a finished call whose name is an
\* entry's name in any case permutation returns that entry's code.
C1_FindsEveryCasePermutation ==
    StrictlyAscending(_a) =>
        \A t \in Threads :
            pc[t] = "done" =>
                \A i \in Matching(name[t]) : retval[t] = _a[i].type

\* A call whose name is a case permutation of an entry's name, and not the
\* name as the table spells it, has returned the entry's code.
C1_Witness ==
    /\ Len(_a) >= 3
    /\ pc[1] = "done"
    /\ \E i \in Matching(name[1]) :
          /\ name[1] # _a[i].desc
          /\ retval[1] = _a[i].type
          /\ ncmp[1] >= 2

\* C2: a finished call whose name is no entry's name up to case returns
\* 0xFFFFFFFF, and bsearch() gave it no match.
C2_UnmatchedReturnsSentinel ==
    \A t \in Threads :
        (pc[t] = "done" /\ Matching(name[t]) = {}) =>
            (retval[t] = SENTINEL /\ match[t] = NULL)

\* A call with a name of the table's characters that is no entry's name has
\* returned 0xFFFFFFFF.
C2_Witness ==
    /\ Len(_a) >= 3
    /\ pc[1] = "done"
    /\ Len(name[1]) = 2
    /\ Matching(name[1]) = {}
    /\ retval[1] = SENTINEL

\* C3: two finished calls whose names differ only in letter case return the
\* same value; and two finished calls that matched the same entry have names
\* that differ only in letter case (nothing else is folded, trimmed or
\* skipped).
C3_CaseOnlyNormalization ==
    \A s, t \in Threads :
        (pc[s] = "done" /\ pc[t] = "done") =>
            /\ DifferOnlyInCase(name[s], name[t]) => retval[s] = retval[t]
            /\ (match[s] # NULL /\ match[s] = match[t]) =>
                   DifferOnlyInCase(name[s], name[t])

\* Two calls with different spellings of one name have both returned the
\* entry's code.
C3_Witness ==
    /\ pc[1] = "done" /\ pc[2] = "done"
    /\ name[1] # name[2]
    /\ DifferOnlyInCase(name[1], name[2])
    /\ match[1] # NULL
    /\ retval[1] = retval[2]
    /\ retval[1] # SENTINEL

\* C4: two finished calls with the same name hold the same result, whatever
\* the other thread did in between: its calls, steps and returns, before,
\* during and after.
C4_SameNameSameResult ==
    \A s, t \in Threads :
        (pc[s] = "done" /\ pc[t] = "done" /\ name[s] = name[t]) =>
            (retval[s] = retval[t] /\ match[s] = match[t])

\* Two threads have finished a call for the same name of the table, after a
\* search of more than one step each.
C4_Witness ==
    /\ pc[1] = "done" /\ pc[2] = "done"
    /\ name[1] = name[2]
    /\ match[1] # NULL
    /\ ncmp[1] >= 2 /\ ncmp[2] >= 2
    /\ retval[1] = retval[2]

C6_NoSideEffects ==
    [][/\ _a' = _a
       /\ \A t \in Threads :
             (pc[t] # "idle" /\ pc'[t] # "idle") =>
                 (name'[t] = name[t] /\ candidate'[t].desc = name'[t])]_vars

\* A call that found nothing has finished.
C6_Witness ==
    /\ Len(_a) >= 3
    /\ pc[1] = "done"
    /\ match[1] = NULL
    /\ name[1] # <<>>

\* C7: a call makes at most floor(log2(n)) + 1 comparisons on a table of n
\* entries, can always take its next step while it searches, and ends with the
\* code of an entry or with 0xFFFFFFFF.
C7_LogarithmicAndTotal ==
    \A t \in Threads :
        /\ ncmp[t] <= Log2Floor(Len(_a)) + 1
        /\ pc[t] = "bsearch" =>
              (0 <= l[t] /\ l[t] < u[t] /\ u[t] <= Len(_a) /\ ENABLED BsearchStep(t))
        /\ pc[t] = "done" =>
              retval[t] \in {_a[i].type : i \in 1..Len(_a)} \cup {SENTINEL}

\* A call on three entries has finished after two comparisons.
C7_Witness ==
    /\ Len(_a) = 3
    /\ pc[1] = "done"
    /\ ncmp[1] = 2

\* C8: no entry has the code 0xFFFFFFFF, and a finished call that returns
\* 0xFFFFFFFF had a name that is no entry's name up to case.
C8_SentinelMeansNotFound ==
    /\ \A i \in 1..Len(_a) :
          /\ _a[i].type # SENTINEL
          /\ _a[i].type \in (0..65535) \X (0..65535)
    /\ \A t \in Threads :
          (pc[t] = "done" /\ retval[t] = SENTINEL) => Matching(name[t]) = {}

\* A call has returned the largest code, 0xFFFFFFFE, for a name of the table.
C8_Witness ==
    /\ pc[1] = "done"
    /\ retval[1] = <<65535, 65534>>
    /\ Matching(name[1]) # {}

\* C9: no entry has an empty name, and a finished call with the empty string
\* returns 0xFFFFFFFF.
C9_EmptyNameNotFound ==
    /\ \A i \in 1..Len(_a) : _a[i].desc # <<>>
    /\ \A t \in Threads :
          (pc[t] = "done" /\ name[t] = <<>>) =>
              (retval[t] = SENTINEL /\ match[t] = NULL)

\* A call with the empty string has finished on a table of three entries.
C9_Witness ==
    /\ Len(_a) >= 3
    /\ pc[1] = "done"
    /\ name[1] = <<>>
    /\ ncmp[1] = 2
    /\ retval[1] = SENTINEL

\* C10: whatever the order of the table, a finished call that returns
\* anything but 0xFFFFFFFF matched an entry whose name is the input up to
\* case, and returns that entry's code.
C10_OnlyEqualNamesMatch ==
    \A t \in Threads :
        pc[t] = "done" =>
            /\ match[t] # NULL =>
                  (match[t] \in Matching(name[t]) /\ retval[t] = _a[match[t]].type)
            /\ retval[t] # SENTINEL =>
                  \E i \in Matching(name[t]) : retval[t] = _a[i].type

\* A call on a table that is not ascending has returned an entry's code.
C10_Witness ==
    /\ ~StrictlyAscending(_a)
    /\ pc[1] = "done"
    /\ match[1] # NULL
    /\ retval[1] # SENTINEL

\* A call on a table that is not ascending has returned 0xFFFFFFFF for a name
\* the table holds.
FalseNegative ==
    /\ ~StrictlyAscending(_a)
    /\ pc[1] = "done"
    /\ Matching(name[1]) # {}
    /\ retval[1] = SENTINEL

====
